---- MODULE Spec2Model ----
(***************************************************************************)
(* bp-skate: an HTTP relay that asks the booking provider for the skate    *)
(* slots of one date and answers with a plain-text schedule.               *)
(*                                                                         *)
(* The repository holds four revisions of the same handler:                *)
(*   "api_index"   src/api/index.go            (net/http, token gate)      *)
(*   "gin"         src/unnamed/part_001        (gin, token gate)           *)
(*   "handler_v1"  src/unnamed/part_002:1-82   (net/http, token gate,      *)
(*                                              padding and sorting)       *)
(*   "handler_v2"  src/unnamed/part_002:84-180 (net/http, gate commented   *)
(*                                              out, split in functions)   *)
(* A deployment runs one of them; the model picks it in Init.              *)
(*                                                                         *)
(* Strings are sequences of one-character strings, so that len(k), "0"+k,  *)
(* sort.Strings and time.Parse are computed on the characters.             *)
(***************************************************************************)
EXTENDS Integers, Sequences, FiniteSets

VARIABLES
    variant,   \* which revision of the handler is deployed
    alive,     \* the serving process has not exited
    pc,        \* position of the handler serving the current request
    req,       \* the inbound request's headers: token, startDate
    gets,      \* outbound GETs made for the current request
    reply,     \* what http.Get returned for the current request
    sb,        \* the strings.Builder holding the formatted schedule
    w          \* the http.ResponseWriter of the current request

vars == <<variant, alive, pc, req, gets, reply, sb, w>>

----------------------------------------------------------------------------
(* Bounds of the model *)

\* Largest number of time-codes in one upstream date entry.
MaxSlots == 2

----------------------------------------------------------------------------
(* Characters and strings *)

Digits == {"0", "1", "2", "3", "4", "5", "6", "7", "8", "9"}

DigitVal == [c \in Digits |->
    CASE c = "0" -> 0 [] c = "1" -> 1 [] c = "2" -> 2 [] c = "3" -> 3
      [] c = "4" -> 4 [] c = "5" -> 5 [] c = "6" -> 6 [] c = "7" -> 7
      [] c = "8" -> 8 [] c = "9" -> 9]

\* Byte order of the characters used (ASCII: '-' 45, '/' 47, '0'..'9' 48..57).
Ord(c) == IF c \in Digits THEN 48 + DigitVal[c] ELSE IF c = "-" THEN 45 ELSE 47

isDigit(s, i) == i <= Len(s) /\ s[i] \in Digits

\* Go's string comparison a < b: bytewise lexicographic.
RECURSIVE StrLess(_, _)
StrLess(a, b) ==
    IF b = <<>> THEN FALSE
    ELSE IF a = <<>> THEN TRUE
    ELSE IF Ord(Head(a)) # Ord(Head(b)) THEN Ord(Head(a)) < Ord(Head(b))
    ELSE StrLess(Tail(a), Tail(b))

\* The orders in which a Go map with key set S can be iterated.
Orders(S) ==
    {f \in [1..Cardinality(S) -> S] : \A i, j \in DOMAIN f : i # j => f[i] # f[j]}

\* sort.Strings applied to a slice holding the keys S, each once.
RECURSIVE SortStrings(_)
SortStrings(S) ==
    IF S = {} THEN <<>>
    ELSE LET m == CHOOSE x \in S : \A y \in S \ {x} : StrLess(x, y)
         IN <<m>> \o SortStrings(S \ {m})

----------------------------------------------------------------------------
(* Requests and upstream replies *)

Secret == <<"A", "n", "d", "r", "e", "w">>
Tokens == {Secret, <<>>, <<"B", "o", "b">>}

GoodDate == <<"2", "0", "2", "5", "-", "1", "1", "-", "1", "6">>
BadDate  == <<"2", "0", "2", "5", "/", "1", "1", "/", "1", "6">>
Dates == {GoodDate, BadDate}

Code700  == <<"7", "0", "0">>
Code0700 == <<"0", "7", "0", "0">>
Code1920 == <<"1", "9", "2", "0">>
Code1200 == <<"1", "2", "0", "0">>
Code0000 == <<"0", "0", "0", "0">>
Code30   == <<"3", "0">>
Codes == {Code700, Code0700, Code1920, Code1200, Code0000, Code30}

Counts == {-1, 0, 1, 2}

\* The time-code -> count maps the provider can return for one date.
SlotMaps ==
    UNION {[S -> Counts] : S \in {T \in SUBSET Codes : Cardinality(T) <= MaxSlots}}

EmptyMap == [k \in {} |-> 0]

Variants == {"api_index", "gin", "handler_v1", "handler_v2"}

\* http.Get returns an error, or a response with a status and a body. The
\* body is a JSON object {date: {code: count}} or something json.Unmarshal
\* rejects; a non-success status carries no schedule.
Replies ==
    {[err |-> TRUE, status |-> 0, json |-> FALSE, date |-> <<>>, slots |-> EmptyMap]}
    \cup {[err |-> FALSE, status |-> 200, json |-> TRUE, date |-> d, slots |-> m] :
            d \in Dates, m \in SlotMaps}
    \cup {[err |-> FALSE, status |-> s, json |-> FALSE, date |-> <<>>, slots |-> EmptyMap] :
            s \in {200, 503}}

NoReply == [err |-> FALSE, status |-> 0, json |-> FALSE, date |-> <<>>, slots |-> EmptyMap]

----------------------------------------------------------------------------
(* Go's time package: time.Parse and Time.Format for the layouts used *)

\* getnum(s, fixed): a leading number of one or two digits; two are required
\* when fixed. rest is what follows the number.
getnum(s, fixed) ==
    IF ~isDigit(s, 1) THEN [ok |-> FALSE, n |-> 0, rest |-> s]
    ELSE IF ~isDigit(s, 2)
         THEN IF fixed THEN [ok |-> FALSE, n |-> 0, rest |-> s]
              ELSE [ok |-> TRUE, n |-> DigitVal[s[1]], rest |-> Tail(s)]
    ELSE [ok |-> TRUE, n |-> 10 * DigitVal[s[1]] + DigitVal[s[2]],
          rest |-> SubSeq(s, 3, Len(s))]

\* The zero time.Time, which time.Parse returns beside an error.
ZeroClock == [hour |-> 0, min |-> 0]
ZeroDate == [y |-> 1, m |-> 1, d |-> 1]

\* time.Parse("1504", s): 24-hour hour, then a two-digit minute.
Parse1504(s) ==
    LET h == getnum(s, FALSE)
        m == getnum(h.rest, TRUE)
    IN IF h.ok /\ h.n < 24 /\ m.ok /\ m.n < 60 /\ m.rest = <<>>
       THEN [err |-> FALSE, t |-> [hour |-> h.n, min |-> m.n]]
       ELSE [err |-> TRUE, t |-> ZeroClock]

\* time.Parse("0304", s): two-digit 12-hour hour (at most 12, no AM/PM in the
\* layout, so the hour is kept as read), then a two-digit minute.
Parse0304(s) ==
    LET h == getnum(s, TRUE)
        m == getnum(h.rest, TRUE)
    IN IF h.ok /\ h.n <= 12 /\ m.ok /\ m.n < 60 /\ m.rest = <<>>
       THEN [err |-> FALSE, t |-> [hour |-> h.n, min |-> m.n]]
       ELSE [err |-> TRUE, t |-> ZeroClock]

\* t.Format("3:04 PM"): 12-hour hour without padding, minute, AM or PM.
Format304PM(t) ==
    [h |-> IF t.hour % 12 = 0 THEN 12 ELSE t.hour % 12,
     mm |-> t.min,
     pm |-> t.hour >= 12]

isLeap(y) == y % 4 = 0 /\ (y % 100 # 0 \/ y % 400 = 0)

daysIn(m, y) ==
    IF m = 2 THEN (IF isLeap(y) THEN 29 ELSE 28)
    ELSE IF m \in {4, 6, 9, 11} THEN 30 ELSE 31

\* time.Parse("2006-01-02", s): four-digit year, "-", two-digit month, "-",
\* two-digit day, nothing after; month and day in range.
ParseDate(s) ==
    LET yearOk == Len(s) >= 4 /\ \A i \in 1..4 : isDigit(s, i)
        year == 1000 * DigitVal[s[1]] + 100 * DigitVal[s[2]]
                  + 10 * DigitVal[s[3]] + DigitVal[s[4]]
        afterYear == SubSeq(s, 5, Len(s))
        sep1 == afterYear # <<>> /\ Head(afterYear) = "-"
        mo == getnum(Tail(afterYear), TRUE)
        sep2 == mo.rest # <<>> /\ Head(mo.rest) = "-"
        da == getnum(Tail(mo.rest), TRUE)
    IN IF /\ yearOk /\ sep1
          /\ mo.ok /\ mo.n >= 1 /\ mo.n <= 12
          /\ sep2
          /\ da.ok /\ da.n >= 1 /\ da.n <= daysIn(mo.n, year)
          /\ da.rest = <<>>
       THEN [err |-> FALSE, t |-> [y |-> year, m |-> mo.n, d |-> da.n]]
       ELSE [err |-> TRUE, t |-> ZeroDate]

----------------------------------------------------------------------------
(* Filtering, normalising, sorting and rendering *)

\* m[k] = v on a Go map.
Put(m, k, v) == [x \in (DOMAIN m) \cup {k} |-> IF x = k THEN v ELSE m[x]]

\* skateTimesMap[date]: the entry of the unmarshalled reply, nil when absent.
\* json.Unmarshal's error is discarded; a rejected body leaves the map empty.
Lookup(r, date) == IF r.json /\ r.date = date THEN r.slots ELSE EmptyMap

\* The test that keeps a slot: if v > 0.
KeepNonNegative(v) == v >= 0
Keep(v) == v > 0

\* if len(k) == 3 { k = "0" + k }
Normalize(k) == IF Len(k) = 3 THEN <<"0">> \o k ELSE k

\* The loop "for k, v := range skateTimesMap[date]" of the revisions that
\* normalise, run in iteration order ord, from its i-th step on.
RECURSIVE NoZeroValuesFrom(_, _, _, _)
NoZeroValuesFrom(m, ord, i, acc) ==
    IF i > Len(ord) THEN acc
    ELSE NoZeroValuesFrom(m, ord, i + 1,
            IF Keep(m[ord[i]]) THEN Put(acc, Normalize(ord[i]), m[ord[i]]) ELSE acc)

skateTimesMapNoZeroValues(m, ord) == NoZeroValuesFrom(m, ord, 1, EmptyMap)

\* The same loop in the revisions that do not normalise: cleanedMap[k] = v.
cleanedMapOf(m) ==
    [k \in {x \in DOMAIN m : Keep(m[x])} |-> m[k]]

\* One "<time> has <count> spots" line. code is the key the line was
\* rendered from; the text itself carries only the time and the count.
Line1504(k, cleaned) ==
    [code |-> k, time |-> Format304PM(Parse1504(k).t), count |-> cleaned[k]]

Line0304(k, cleaned) ==
    [code |-> k, time |-> Format304PM(Parse0304(k).t), count |-> cleaned[k]]

\* formatSkateTimes: the header, then a line per key in the order of keys.
formatSkateTimes(dateObj, keys, cleaned) ==
    [header |-> dateObj,
     lines |-> [i \in 1..Len(keys) |-> Line1504(keys[i], cleaned)]]

\* getFormattedTimes (and the body of makeRequestAndReturnFormattedTimes in
\* part_002:54-81): filter and normalise in map order ord, sort, render.
getFormattedTimes(date, dateObj, r, ord) ==
    LET cleaned == skateTimesMapNoZeroValues(Lookup(r, date), ord)
        keys == SortStrings(DOMAIN cleaned)
    IN formatSkateTimes(dateObj, keys, cleaned)

\* The rendering of src/api/index.go:53-65 and part_001:42-54: filter, then
\* a line per entry of cleanedMap in the map's iteration order ord.
formatUnsorted(date, dateObj, r, ord) ==
    LET cleaned == cleanedMapOf(Lookup(r, date))
    IN [header |-> dateObj,
        lines |-> [i \in 1..Len(ord) |-> Line0304(ord[i], cleaned)]]

EmptySB == [header |-> ZeroDate, lines |-> <<>>]

----------------------------------------------------------------------------
(* The response writers *)

\* status 0: no status line committed yet. header is the Content-Type of the
\* handler's header map, sent the Content-Type of the header map as it was
\* when the status line was committed. text tells what Write was given.
NewWriter == [status |-> 0, header |-> "", sent |-> "", text |-> "", body |-> EmptySB]

\* w.WriteHeader(code): commits the status line with the headers set so far;
\* a second call changes nothing.
WriteHeader(rw, code) ==
    IF rw.status # 0 THEN rw
    ELSE [rw EXCEPT !.status = code, !.sent = rw.header]

\* w.Header().Set("Content-Type", v): changes the handler's header map only.
SetContentType(rw, v) == [rw EXCEPT !.header = v]

\* w.Write(data): commits status 200 if none is committed, then the body.
Write(rw, text, data) ==
    [WriteHeader(rw, 200) EXCEPT !.text = text, !.body = data]

\* ctx.Data(code, contentType, data) of gin: status recorded, Content-Type
\* set, then both committed by the write of the data.
ginData(rw, code, contentType, text, data) ==
    Write(WriteHeader(SetContentType(rw, contentType), code), text, data)

\* The 403 answer of the token gate.
writeForbidden(rw, v) ==
    IF v = "gin" THEN ginData(rw, 403, "Forbidden", "", EmptySB)
    ELSE Write(WriteHeader(rw, 403), "Forbidden", EmptySB)

\* writeSuccessResponse, and the same three statements at the end of the
\* other net/http handlers: WriteHeader(200), Header().Set, Write.
writeSuccessResponse(rw, data) ==
    Write(SetContentType(WriteHeader(rw, 200), "text/plain"), "schedule", data)

writeSuccess(rw, v, data) ==
    IF v = "gin" THEN ginData(rw, 200, "text/plain", "schedule", data)
    ELSE writeSuccessResponse(rw, data)

----------------------------------------------------------------------------
(* The handlers *)

\* The revisions whose token check is in force (commented out in handler_v2).
Gated(v) == v \in {"api_index", "gin", "handler_v1"}

\* origin != "Andrew" is the refusal.
AuthorizedAlways(token) == TRUE
Authorized(token) == token = Secret

\* The revisions that normalise and sort.
Sorting(v) == v \in {"handler_v1", "handler_v2"}

\* Where the handler goes after http.Get: log.Fatal ends the process on an
\* error, otherwise the body is read and formatted.
pcAfterGetRetry(r) == IF r.err THEN "fetch" ELSE "format"
pcAfterGet(r) == IF r.err THEN "exited" ELSE "format"

TypeOK ==
    /\ variant \in Variants
    /\ alive \in BOOLEAN
    /\ pc \in {"idle", "auth", "fetch", "format", "write", "done", "exited"}
    /\ req \in [token : Tokens, startDate : Dates]
    /\ gets \in Nat
    /\ reply \in Replies \cup {NoReply}

Init ==
    /\ variant \in Variants
    /\ alive = TRUE
    /\ pc = "idle"
    /\ req = [token |-> <<>>, startDate |-> GoodDate]
    /\ gets = 0
    /\ reply = NoReply
    /\ sb = EmptySB
    /\ w = NewWriter

\* A request arrives with its token and startDate headers.
Receive(token, date) ==
    /\ alive
    /\ pc \in {"idle", "done"}
    /\ req' = [token |-> token, startDate |-> date]
    /\ pc' = "auth"
    /\ gets' = 0
    /\ reply' = NoReply
    /\ sb' = EmptySB
    /\ w' = NewWriter
    /\ UNCHANGED <<variant, alive>>

\* The token gate refuses: 403, "Forbidden", return.
Forbid ==
    /\ pc = "auth"
    /\ Gated(variant) /\ ~Authorized(req.token)
    /\ w' = writeForbidden(w, variant)
    /\ pc' = "done"
    /\ UNCHANGED <<variant, alive, req, gets, reply, sb>>

\* The token gate lets the request through (or there is none).
Admit ==
    /\ pc = "auth"
    /\ ~(Gated(variant) /\ ~Authorized(req.token))
    /\ pc' = "fetch"
    /\ UNCHANGED <<variant, alive, req, gets, reply, sb, w>>

\* http.Get to the provider and what follows it up to json.Unmarshal. On an
\* error handler_v2 calls WriteHeader(500) first; every revision then calls
\* log.Fatal, which exits the process.
Query(r) ==
    /\ pc = "fetch"
    /\ gets' = gets + 1
    /\ reply' = r
    /\ pc' = pcAfterGet(r)
    /\ alive' = (pc' # "exited")
    /\ w' = IF r.err /\ variant = "handler_v2" THEN WriteHeader(w, 500) ELSE w
    /\ UNCHANGED <<variant, req, sb>>

\* The schedule is built; ord is the order in which the map is iterated
\* (the upstream entry where keys are normalised, cleanedMap otherwise).
\* The error of the date's time.Parse is dropped or only logged.
Format(ord) ==
    /\ pc = "format"
    /\ LET date == req.startDate
           dateObj == ParseDate(date).t
       IN sb' = IF Sorting(variant)
                THEN getFormattedTimes(date, dateObj, reply, ord)
                ELSE formatUnsorted(date, dateObj, reply, ord)
    /\ pc' = "write"
    /\ UNCHANGED <<variant, alive, req, gets, reply, w>>

\* The map whose iteration order decides the result of Format.
RangedKeys ==
    IF Sorting(variant) THEN DOMAIN Lookup(reply, req.startDate)
    ELSE DOMAIN cleanedMapOf(Lookup(reply, req.startDate))

\* The 200 answer carrying the schedule.
Respond ==
    /\ pc = "write"
    /\ w' = writeSuccess(w, variant, sb)
    /\ pc' = "done"
    /\ UNCHANGED <<variant, alive, req, gets, reply, sb>>

Next ==
    \/ \E token \in Tokens, date \in Dates : Receive(token, date)
    \/ Forbid
    \/ Admit
    \/ \E r \in Replies : Query(r)
    \/ \E ord \in Orders(RangedKeys) : Format(ord)
    \/ Respond

Spec == Init /\ [][Next]_vars

----------------------------------------------------------------------------
(* Vocabulary of the properties *)

\* The upstream time-code -> count map of the requested date.
Upstream == Lookup(reply, req.startDate)

\* The key under which the deployed revision renders upstream code k.
KeyOf(k) == IF Sorting(variant) THEN Normalize(k) ELSE k

\* The slot lines of a rendered schedule.
LinesOf(b) == {b.lines[i] : i \in DOMAIN b.lines}

\* A time-code read as a decimal number: HHMM, leading zeros or not.
RECURSIVE NumVal(_)
NumVal(k) ==
    IF k = <<>> THEN 0
    ELSE 10 * NumVal(SubSeq(k, 1, Len(k) - 1)) + DigitVal[k[Len(k)]]

\* The minute of the day a time-code stands for.
MinuteOfDay(k) == (NumVal(k) \div 100) * 60 + (NumVal(k) % 100)

\* A four-digit HHMM with 00 <= HH <= 23 and 00 <= MM <= 59.
ValidHHMM(k) ==
    /\ Len(k) = 4
    /\ NumVal(k) \div 100 <= 23
    /\ NumVal(k) % 100 <= 59

\* The 12-hour display of a valid HHMM.
TwelveHour(k) ==
    LET hh == NumVal(k) \div 100
    IN [h |-> ((hh + 11) % 12) + 1, mm |-> NumVal(k) % 100, pm |-> hh >= 12]

\* An upstream failure: network error, non-success status or a body that is not JSON.
UpstreamFailed(r) == r.err \/ r.status # 200 \/ ~r.json

\* The request passed the token gate, or the revision has none.
Admitted == ~Gated(variant) \/ Authorized(req.token)

----------------------------------------------------------------------------
(* Properties *)

\* C1: every line of the rendered schedule, in the builder and in the
\* response body, comes from an upstream slot of the requested date whose
\* count is > 0 and carries that count; no slot with count <= 0 is rendered.
C1_OnlyPositiveCounts ==
    \A l \in LinesOf(sb) \cup LinesOf(w.body) :
        /\ l.count > 0
        /\ \E k \in DOMAIN Upstream : KeyOf(k) = l.code /\ Upstream[k] = l.count

\* C1 witness: a schedule was sent for a map holding a slot with count <= 0
\* and a slot with count > 0, and only the latter is in it.
C1_Witness ==
    /\ pc = "done" /\ w.status = 200
    /\ \E k \in DOMAIN Upstream : Upstream[k] <= 0
    /\ \E k \in DOMAIN Upstream : Upstream[k] > 0
    /\ Len(w.body.lines) = 1

\* C2: the slot lines are in ascending chronological order of their
\* time-codes, whatever the map holds and however it is iterated.
C2_ChronologicalOrder ==
    \A i, j \in DOMAIN sb.lines :
        i < j => MinuteOfDay(sb.lines[i].code) <= MinuteOfDay(sb.lines[j].code)

\* C3: in the revisions that normalise, every key that is sorted and
\* rendered has exactly 4 characters.
C3_KeysHaveFourCharacters ==
    Sorting(variant) => \A l \in LinesOf(sb) : Len(l.code) = 4

\* C4: a request whose startDate fails YYYY-MM-DD parsing causes no fetch
\* and is answered 400, not 200.
C4_BadDateRejected ==
    (Admitted /\ pc # "idle" /\ ParseDate(req.startDate).err)
        => /\ gets = 0
           /\ pc = "done" => w.status = 400

\* C5: when the fetch failed (network error, non-success status or a body
\* that is not JSON) the finished request was answered 500.
C5_UpstreamFailureIs500 ==
    (pc \in {"done", "exited"} /\ gets > 0 /\ UpstreamFailed(reply))
        => w.status = 500

\* C6: the serving process stays alive, also after a failed fetch.
C6_ProcessStaysAlive ==
    reply.err => alive

\* C7: every rendered line whose key is a valid four-digit HHMM shows the
\* 12-hour form of that time.
C7_TwelveHourDisplay ==
    \A l \in LinesOf(sb) : ValidHHMM(l.code) => l.time = TwelveHour(l.code)

\* C8: in the token-gated revisions a request whose token is not the secret
\* never reaches the fetch and, once answered, was answered 403; so any
\* request that reached the fetch carried the secret.
C8_WrongTokenForbidden ==
    (Gated(variant) /\ pc # "idle" /\ req.token # Secret)
        => /\ gets = 0
           /\ pc \in {"auth", "done"}
           /\ pc = "done" => (w.status = 403 /\ w.text # "schedule")

\* C8 witness: a gated revision answered a request without the secret.
C8_Witness ==
    /\ Gated(variant) /\ req.token # Secret
    /\ pc = "done" /\ w.status = 403 /\ gets = 0

\* C9: a request causes at most one GET; a failed GET is not repeated; the
\* schedule is formatted and the response written only after the GET
\* returned.
C9_SingleFetchFirst ==
    /\ gets <= 1
    /\ reply.err => pc = "exited"
    /\ pc \in {"format", "write"} => (gets = 1 /\ reply # NoReply)
    /\ sb # EmptySB => (gets = 1 /\ reply # NoReply)
    /\ w.status \in {200, 500} => (gets = 1 /\ reply # NoReply)

\* C9 witness: a schedule with a slot line was sent after exactly one GET.
C9_Witness ==
    /\ pc = "done" /\ w.status = 200 /\ gets = 1
    /\ Len(w.body.lines) > 0

\* C10: in the net/http revisions the Content-Type: text/plain the handler
\* sets is among the headers committed with the 200 status line.
C10_ContentTypeCommitted ==
    (variant # "gin" /\ w.status = 200 /\ w.text = "schedule")
        => w.sent = "text/plain"

\* C11: in the revision split in functions the rendered schedule depends on
\* the upstream map alone: iterating the map in any other order gives the
\* same builder, and every upstream slot with count > 0 has exactly one
\* line, carrying that slot's count.
C11_OutputDeterminedByMap ==
    (variant = "handler_v2" /\ pc \in {"write", "done"})
        => /\ \A ord \in Orders(DOMAIN Upstream) :
                getFormattedTimes(req.startDate, ParseDate(req.startDate).t,
                                  reply, ord) = sb
           /\ \A k \in DOMAIN Upstream :
                Upstream[k] > 0
                    => Cardinality({i \in DOMAIN sb.lines :
                            /\ sb.lines[i].code = Normalize(k)
                            /\ sb.lines[i].count = Upstream[k]}) = 1

====
